---------------------------- MODULE Spec2Model ----------------------------
(***************************************************************************)
(* Model of the trivia REST API in backend/flaskr/__init__.py: the         *)
(* pagination helper, the question endpoints (list, delete, create,        *)
(* search, by-category), the quiz selector and the error handlers.         *)
(*                                                                         *)
(* Each request handler is one action.  The action reads the store,        *)
(* computes the handler's answer exactly as the Python code does           *)
(* (exceptions, bare excepts and Flask's error handlers included) and      *)
(* leaves the answer in `resp`.                                            *)
(***************************************************************************)
EXTENDS Integers, Sequences, FiniteSets, TLC

VARIABLES
    categories,   \* rows of the categories table (read-only for the API)
    questions,    \* rows of the questions table, in insertion order
    nextId,       \* the id the store gives to the next inserted question
    before,       \* the questions table as the current request found it
    req,          \* the request being answered
    resp          \* the answer the handler produced

vars == <<categories, questions, nextId, before, req, resp>>

-----------------------------------------------------------------------------
(* Bounds of the model.                                                    *)

MaxCreated == 1      \* questions created by POST /questions in one run
MaxPrev == 3         \* length of previousQuestions in a quiz request
MaxPage == 3         \* largest ?page= value handed to paginate_questions alone
MaxLen == 21         \* longest sequence handed to paginate_questions alone

-----------------------------------------------------------------------------
(* JSON values as Python sees them after request.get_json().               *)

JNone == [t |-> "null"]
JInt(n) == [t |-> "int", v |-> n]
JStr(s) == [t |-> "str", v |-> s]
JList(l) == [t |-> "list", v |-> l]
JDict(i) == [t |-> "dict", id |-> i]      \* a JSON object {"id": i, ...}
Raised(e) == [t |-> "raise", exc |-> e]  \* a Python exception in flight

IsRaised(x) == x.t = "raise"

\* dict.get(key, default) on a decoded JSON body
Get(body, key, default) == IF key \in DOMAIN body THEN body[key] ELSE default

\* Python truthiness of a decoded JSON value (`if category:`)
Truthy(x) ==
    CASE x.t = "null" -> FALSE
      [] x.t = "int" -> x.v # 0
      [] x.t = "str" -> x.v # <<>>
      [] x.t = "list" -> x.v # <<>>
      [] x.t = "dict" -> TRUE       \* a dict with an "id" key is not empty
      [] OTHER -> TRUE

\* Attribute access x.id on a decoded JSON value: dict, list, str, int and
\* None have no attribute `id`, so the access raises AttributeError.
GetAttrId(x) == Raised("AttributeError")

\* len(x) for a decoded JSON value
PyLen(x) ==
    CASE x.t = "str" -> JInt(Len(x.v))
      [] x.t = "list" -> JInt(Len(x.v))
      [] x.t = "dict" -> JInt(1)
      [] OTHER -> Raised("TypeError")

RECURSIVE BitOrNat(_, _)
BitOrNat(a, b) ==
    IF a = 0 THEN b
    ELSE IF b = 0 THEN a
    ELSE (IF a % 2 = 1 \/ b % 2 = 1 THEN 1 ELSE 0)
         + 2 * BitOrNat(a \div 2, b \div 2)

\* Python's binary `|` on decoded JSON values: defined on two ints, a
\* TypeError on None and on str operands.
BitOr(a, b) ==
    IF IsRaised(a) THEN a
    ELSE IF a.t = "int" /\ b.t = "int" THEN JInt(BitOrNat(a.v, b.v))
    ELSE Raised("TypeError")

-----------------------------------------------------------------------------
(* Text.  A string is a sequence of one-character strings.                 *)

Lower(c) ==
    CASE c = "T" -> "t"
      [] c = "I" -> "i"
      [] c = "B" -> "b"
      [] OTHER -> c

Digit(n) ==
    CASE n = 0 -> "0" [] n = 1 -> "1" [] n = 2 -> "2" [] n = 3 -> "3"
      [] n = 4 -> "4" [] n = 5 -> "5" [] n = 6 -> "6" [] n = 7 -> "7"
      [] n = 8 -> "8" [] OTHER -> "9"

RECURSIVE Decimal(_)
Decimal(n) == IF n < 10 THEN <<Digit(n)>> ELSE Append(Decimal(n \div 10), Digit(n % 10))

\* SQL `text ILIKE pattern`: % matches any run of characters, _ matches one
\* character, every other character matches itself without regard to case.
RECURSIVE ILike(_, _)
ILike(text, pattern) ==
    IF pattern = <<>> THEN text = <<>>
    ELSE IF Head(pattern) = "%"
         THEN ILike(text, Tail(pattern))
              \/ (text # <<>> /\ ILike(Tail(text), pattern))
         ELSE /\ text # <<>>
              /\ (Head(pattern) = "_" \/ Lower(Head(pattern)) = Lower(Head(text)))
              /\ ILike(Tail(text), Tail(pattern))

\* '%{}%'.format(search_term)
SearchPattern(term) == <<"%">> \o term \o <<"%">>

-----------------------------------------------------------------------------
(* The store: Question and Category rows and their queries.                *)

QuestionRow(i, q, a, c, d) ==
    [cls |-> "Question", id |-> i, question |-> q, answer |-> a,
     category |-> c, difficulty |-> d]

CategoryRow(i, ty) == [cls |-> "Category", id |-> i, type |-> ty]

\* row.format(): the dictionary sent over the wire for a row
Format(row) ==
    IF row.cls = "Question"
    THEN [id |-> row.id, question |-> row.question, answer |-> row.answer,
          category |-> row.category, difficulty |-> row.difficulty]
    ELSE [id |-> row.id, type |-> row.type]

\* The value a column stores for a JSON value: text columns keep text and
\* store an integer as its decimal text; integer columns keep the integer.
AsText(x) == IF x.t = "int" THEN Decimal(x.v) ELSE x.v
AsInteger(x) == x.v

\* Question(question=, answer=, category=, difficulty=) followed by insert()
Insert(rows, i, q, a, c, d) ==
    Append(rows, QuestionRow(i, AsText(q), AsText(a), AsInteger(c), AsInteger(d)))

\* question.delete()
Delete(rows, i) == SelectSeq(rows, LAMBDA r : r.id # i)

\* Question.query.filter(Question.id == i).one_or_none()
HasId(rows, i) == \E k \in 1..Len(rows) : rows[k].id = i

\* Question.query.filter(Question.question.ilike(pattern)).all()
FilterILike(rows, pattern) == SelectSeq(rows, LAMBDA r : ILike(r.question, pattern))

\* Question.query.filter(Question.category == c).all()
FilterCategory(rows, c) == SelectSeq(rows, LAMBDA r : r.category = c)

\* Category.query.filter(Question.category == c).all(): the query selects
\* from categories and questions with no join condition, so it yields every
\* Category row (once each) when some question has category c, else nothing.
CategoriesWhereQuestionCategory(cats, rows, c) ==
    IF \E k \in 1..Len(rows) : rows[k].category = c THEN cats ELSE <<>>

-----------------------------------------------------------------------------
(* paginate_questions                                                      *)

QUESTIONS_PER_PAGE == 10

\* request.args.get('page', 1, type=int): the default when the argument is
\* absent or is not a numeral
PageArg(args) ==
    IF "page" \notin DOMAIN args THEN 1
    ELSE IF args["page"].t = "int" THEN args["page"].v
    ELSE 1

\* Python's seq[start:end]
PySlice(s, start, end) ==
    LET n == Len(s)
        clamp(i) == IF i < 0 THEN (IF i + n < 0 THEN 0 ELSE i + n)
                    ELSE IF i > n THEN n ELSE i
        lo == clamp(start)
        hi == clamp(end)
    IN  IF hi <= lo THEN <<>> ELSE [k \in 1..(hi - lo) |-> s[lo + k]]

paginate_off_by_one(args, rows) ==
    LET page == PageArg(args)
        start == (page - 1) * QUESTIONS_PER_PAGE
        end == start + QUESTIONS_PER_PAGE
        format_questions == [k \in 1..Len(rows) |-> Format(rows[k])]
    IN  PySlice(format_questions, start + 1, end)

paginate_questions(args, rows) ==
    LET page == PageArg(args)
        start == (page - 1) * QUESTIONS_PER_PAGE
        end == start + QUESTIONS_PER_PAGE
        format_questions == [k \in 1..Len(rows) |-> Format(rows[k])]
    IN  PySlice(format_questions, start, end)

-----------------------------------------------------------------------------
(* Responses.  A JSON object answer lists the keys it carries in `keys`;   *)
(* a field whose key is not in `keys` is absent from the body.  A bare     *)
(* answer is a JSON string, not an object.                                 *)

NoQuestion == [id |-> 0]

Blank ==
    [kind |-> "object", keys |-> {}, success |-> FALSE, error |-> 0,
     message |-> "", bare |-> "", question |-> NoQuestion, questions |-> <<>>,
     total_questions |-> 0, created |-> 0, deleted |-> 0, category |-> 0,
     categories |-> <<>>]

\* jsonify({'success': False, 'error': code, 'message': msg})
ErrorEnvelope(code, msg) ==
    [Blank EXCEPT !.keys = {"success", "error", "message"},
                  !.success = FALSE, !.error = code, !.message = msg]

bad_request == ErrorEnvelope(400, "Bad request")
not_found == ErrorEnvelope(404, "Resource not found. Input out of range.")
unprocessable == ErrorEnvelope(422, "unprocessable. Synax error.")
internal_server ==
    ErrorEnvelope(500, "Sorry, the falut is us not you. Please try again later.")

\* abort(code): the answer of the error handler registered for code
Abort(code) ==
    CASE code = 400 -> bad_request
      [] code = 404 -> not_found
      [] code = 422 -> unprocessable
      [] OTHER -> internal_server

\* An exception that leaves a view function, and a view function that
\* returns None, are both answered by the handler registered for 500.
UnhandledException == internal_server

-----------------------------------------------------------------------------
(* The view functions.  Each yields the answer and the questions table     *)
(* the request leaves behind.                                              *)

Outcome(answer, rows) == [t |-> "return", resp |-> answer, rows |-> rows]

get_categories(cats) ==
    LET ids == {cats[k].id : k \in 1..Len(cats)}
        data == [i \in ids |-> (CHOOSE k \in 1..Len(cats) : cats[k].id = i)]
    IN  IF Cardinality(ids) = 0
        THEN Abort(404)
        ELSE [Blank EXCEPT !.keys = {"success", "categories"}, !.success = TRUE,
                           !.categories = [i \in ids |-> cats[data[i]].type]]

get_questions(rows, args) ==
    LET current_questions == paginate_questions(args, rows)
    IN  IF Len(current_questions) = 0
        THEN Abort(404)
        ELSE [Blank EXCEPT !.keys = {"success", "questions", "total_questions"},
                           !.success = TRUE,
                           !.questions = current_questions,
                           !.total_questions = Len(rows)]

\* The body of delete_question's try block: an Outcome, or the exception
\* that leaves the block (abort(404) raises an HTTP exception).
delete_try(rows, question_id, args, fail) ==
    IF ~HasId(rows, question_id) THEN Raised("NotFound")
    ELSE IF fail THEN Raised("SQLAlchemyError")
    ELSE LET all_questions == Delete(rows, question_id)
         IN  Outcome([Blank EXCEPT
                        !.keys = {"success", "deleted", "questions", "total_questions"},
                        !.success = TRUE,
                        !.deleted = question_id,
                        !.questions = paginate_questions(args, all_questions),
                        !.total_questions = Len(all_questions)],
                     all_questions)

\* try: ... except: abort(422) -- the bare except also catches abort(404)
delete_question(rows, question_id, args, fail) ==
    LET r == delete_try(rows, question_id, args, fail)
    IN  IF IsRaised(r) THEN Outcome(Abort(422), rows) ELSE r

\* new_question|insert_answer|insert_category|insert_difficulty is None
\* parses as (a | b | c | d) is None
MissingCheck(a, b, c, d) ==
    LET x == BitOr(BitOr(BitOr(a, b), c), d)
    IN  IF IsRaised(x) THEN x ELSE [t |-> "bool", v |-> (x.t = "null")]

create_question(rows, id, body, args, fail) ==
    LET new_question == Get(body, "question", JNone)
        insert_answer == Get(body, "answer", JNone)
        insert_category == Get(body, "category", JNone)
        insert_difficulty == Get(body, "difficulty", JNone)
        missing == MissingCheck(new_question, insert_answer,
                                insert_category, insert_difficulty)
    IN  IF IsRaised(missing) THEN Outcome(UnhandledException, rows)
        ELSE IF missing.v
        THEN Outcome([Blank EXCEPT !.keys = {"success", "message"},
                                   !.success = FALSE,
                                   !.message = "missing inormation"], rows)
        ELSE IF fail THEN Outcome(Abort(422), rows)
        ELSE LET all_questions == Insert(rows, id, new_question, insert_answer,
                                         insert_category, insert_difficulty)
             IN  Outcome([Blank EXCEPT
                            !.keys = {"success", "created", "questions", "total_questions"},
                            !.success = TRUE,
                            !.created = id,
                            !.questions = paginate_questions(args, all_questions),
                            !.total_questions = Len(all_questions)],
                         all_questions)

\* Whether create_question reaches question.insert() for this body
Inserts(body) ==
    LET missing == MissingCheck(Get(body, "question", JNone), Get(body, "answer", JNone),
                                Get(body, "category", JNone), Get(body, "difficulty", JNone))
    IN  ~IsRaised(missing) /\ ~missing.v

search_questions(rows, body, args) ==
    LET search_term == Get(body, "search", JStr(<<>>))
        related_questions == FilterILike(rows, SearchPattern(search_term.v))
    IN  IF Len(related_questions) = 0
        THEN [Blank EXCEPT !.kind = "bare", !.bare = "question not found."]
        ELSE [Blank EXCEPT !.keys = {"success", "questions", "total_questions"},
                           !.success = TRUE,
                           !.questions = paginate_questions(args, related_questions),
                           !.total_questions = Len(rows)]

get_question_by_category(cats, rows, category_id, args) ==
    LET found == CategoriesWhereQuestionCategory(cats, rows, category_id)
    IN  [Blank EXCEPT !.keys = {"success", "questions", "category", "total_questions"},
                      !.success = TRUE,
                      !.questions = paginate_questions(args, found),
                      !.category = category_id,
                      !.total_questions = Len(rows)]

\* The candidate questions of a quiz request, or the exception raised
\* while evaluating the category filter.
QuizPool(rows, category) ==
    IF Truthy(category)
    THEN LET cid == GetAttrId(category)
         IN  IF IsRaised(cid) THEN cid
             ELSE [t |-> "return", rows |-> FilterCategory(rows, cid.v)]
    ELSE [t |-> "return", rows |-> rows]

check_if_used(previous_questions, question) ==
    IF previous_questions.t = "list"
    THEN \E k \in 1..Len(previous_questions.v) : previous_questions.v[k] = question.id
    ELSE FALSE     \* the characters of a str never equal an integer id

\* d1, d2: the values random.randrange gives to the first and second call
\* of get_random_question, as 1-based positions in the pool.
get_a_random_question(rows, body, d1, d2) ==
    LET category == Get(body, "quizCategory", JStr(<<>>))
        previous_questions == Get(body, "previousQuestions", JStr(<<>>))
        found == QuizPool(rows, category)
        pool == found.rows
        n == PyLen(previous_questions)
    IN  IF IsRaised(found) THEN Abort(500)
        ELSE IF IsRaised(n) THEN UnhandledException
        ELSE IF n.v = Len(pool)
        THEN [Blank EXCEPT !.keys = {"success", "message"}, !.success = TRUE,
                           !.message = "You have tried all the questions"]
        ELSE IF Len(pool) = 0 THEN Abort(422)    \* randrange(0, 0, 1): ValueError
        ELSE IF check_if_used(previous_questions, pool[d1])
        THEN [Blank EXCEPT !.keys = {"success", "question"}, !.success = TRUE,
                           !.question = Format(pool[d2])]
        ELSE UnhandledException                  \* the view returns None

-----------------------------------------------------------------------------
(* Initial states and the inputs of the requests.                          *)

FirstId == 13        \* the id the store gives to the first created question

SeedCategories == <<CategoryRow(1, "Science"), CategoryRow(2, "Art")>>

SeedQuestions ==
    <<QuestionRow(10, <<"T", "i">>, <<"a">>, 1, 1),
      QuestionRow(11, <<"t">>, <<"a">>, 1, 2),
      QuestionRow(12, <<"b">>, <<"a">>, 1, 1)>>

\* The stores a run may start from: the seed questions, some of them deleted
InitStores ==
    {SelectSeq(SeedQuestions, LAMBDA r : r.id \in keep) : keep \in SUBSET {10, 11, 12}}

\* A JSON object with the keys of f whose value is given
Body(f) == [k \in {k \in DOMAIN f : f[k] # <<>>} |-> f[k]]

\* <<>> stands for "the key is not sent"
\* The ?page= values sent to the endpoints: none, and a page past the end
PageArgs == {Body([page |-> p]) : p \in {<<>>, JInt(2)}}

QuestionIds == 10..FirstId

CreateBodies ==
    {Body([question |-> q, answer |-> a, category |-> c, difficulty |-> d]) :
        q \in {<<>>, JStr(<<"T", "b">>), JInt(1)},
        a \in {<<>>, JStr(<<"a">>), JInt(2)},
        c \in {<<>>, JInt(1), JInt(2)},
        d \in {JNone, JInt(1)}}

SearchTerms == {<<>>, <<"t">>, <<"T", "I">>, <<"_", "i">>, <<"z">>}

SearchBodies ==
    {Body([search |-> JStr(t)]) : t \in SearchTerms}
    \cup {Body([searchTerm |-> JStr(t)]) : t \in SearchTerms}

\* The lists of at most n ids of S in non-decreasing order (the selector
\* reads only the length of previousQuestions and which ids it holds)
RECURSIVE SortedSeqsUpTo(_, _)
SortedSeqsUpTo(S, n) ==
    IF n = 0 THEN {<<>>}
    ELSE LET shorter == SortedSeqsUpTo(S, n - 1)
             Last(s) == {y \in S : s = <<>> \/ s[Len(s)] <= y}
         IN  shorter \cup UNION {{Append(s, x) : x \in Last(s)} : s \in shorter}

QuizBodies ==
    {Body([quizCategory |-> c, previousQuestions |-> p]) :
        c \in {<<>>, JDict(1)},
        p \in {<<>>, JNone} \cup {JList(l) : l \in SortedSeqsUpTo(10..12, MaxPrev)}}

Init ==
    /\ categories = SeedCategories
    /\ questions \in InitStores
    /\ nextId = FirstId
    /\ before = questions
    /\ req = [op |-> "none"]
    /\ resp = Blank

-----------------------------------------------------------------------------
(* One action per endpoint.                                                *)

Answer(request, out) ==
    /\ req' = request
    /\ before' = questions
    /\ resp' = out.resp
    /\ questions' = out.rows

GetCategories ==
    /\ Answer([op |-> "get_categories"], Outcome(get_categories(categories), questions))
    /\ UNCHANGED <<categories, nextId>>

GetQuestions ==
    \E args \in PageArgs :
        /\ Answer([op |-> "get_questions", args |-> args],
                  Outcome(get_questions(questions, args), questions))
        /\ UNCHANGED <<categories, nextId>>

DeleteQuestion ==
    \E question_id \in QuestionIds, args \in PageArgs, fail \in BOOLEAN :
        /\ Answer([op |-> "delete_question", id |-> question_id, args |-> args,
                   fail |-> fail],
                  delete_question(questions, question_id, args, fail))
        /\ UNCHANGED <<categories, nextId>>

CreateQuestion ==
    \E body \in CreateBodies, args \in PageArgs, fail \in BOOLEAN :
        /\ Inserts(body) => nextId < FirstId + MaxCreated
        /\ Answer([op |-> "create_question", body |-> body, args |-> args,
                   fail |-> fail],
                  create_question(questions, nextId, body, args, fail))
        /\ nextId' = IF Inserts(body) /\ ~fail THEN nextId + 1 ELSE nextId
        /\ UNCHANGED categories

SearchQuestions ==
    \E body \in SearchBodies, args \in PageArgs :
        /\ Answer([op |-> "search_questions", body |-> body, args |-> args],
                  Outcome(search_questions(questions, body, args), questions))
        /\ UNCHANGED <<categories, nextId>>

GetQuestionByCategory ==
    \E category_id \in 1..2, args \in PageArgs :
        /\ Answer([op |-> "get_question_by_category", id |-> category_id,
                   args |-> args],
                  Outcome(get_question_by_category(categories, questions,
                                                   category_id, args), questions))
        /\ UNCHANGED <<categories, nextId>>

GetARandomQuestion ==
    \E body \in QuizBodies :
        \E d1, d2 \in 1..(IF Len(questions) = 0 THEN 1 ELSE Len(questions)) :
            /\ Answer([op |-> "get_a_random_question", body |-> body],
                      Outcome(get_a_random_question(questions, body, d1, d2),
                              questions))
            /\ UNCHANGED <<categories, nextId>>

Next ==
    \/ GetCategories
    \/ GetQuestions
    \/ DeleteQuestion
    \/ CreateQuestion
    \/ SearchQuestions
    \/ GetQuestionByCategory
    \/ GetARandomQuestion

Spec == Init /\ [][Next]_vars

-----------------------------------------------------------------------------
(* paginate_questions on its own: stores of every length up to MaxLen and  *)
(* every page argument, the pages before the first included.               *)

LongStore(len, base) ==
    [k \in 1..len |-> QuestionRow(base + k, Decimal(k), <<"a">>, 1 + (k % 2), 1)]

LongPageArgs ==
    {Body([page |-> p]) : p \in {<<>>, JStr(<<"x">>)} \cup {JInt(n) : n \in (-1)..MaxPage}}

InitPaginate ==
    /\ categories = SeedCategories
    /\ questions \in {LongStore(len, base) : len \in 0..MaxLen, base \in {0, 100}}
    /\ nextId = FirstId
    /\ before = questions
    /\ req = [op |-> "none"]
    /\ resp = Blank

PaginateQuestions ==
    \E args \in LongPageArgs :
        /\ Answer([op |-> "paginate_questions", args |-> args],
                  Outcome([Blank EXCEPT !.keys = {"questions"},
                                        !.questions = paginate_questions(args, questions)],
                          questions))
        /\ UNCHANGED <<categories, nextId>>

ListQuestions ==
    \E args \in LongPageArgs :
        /\ Answer([op |-> "get_questions", args |-> args],
                  Outcome(get_questions(questions, args), questions))
        /\ UNCHANGED <<categories, nextId>>

NextPaginate == PaginateQuestions \/ ListQuestions

SpecPaginate == InitPaginate /\ [][NextPaginate]_vars

-----------------------------------------------------------------------------
(* The properties.                                                         *)

Range(s) == {s[k] : k \in 1..Len(s)}
Min(a, b) == IF a < b THEN a ELSE b
Max(a, b) == IF a > b THEN a ELSE b

IsQuiz == req.op = "get_a_random_question"

\* The category a quiz request selects: 0 for "all"
SelectedCategory ==
    IF "quizCategory" \in DOMAIN req.body THEN req.body["quizCategory"].id ELSE 0

\* The ids a quiz request names as already served
Previous ==
    IF "previousQuestions" \in DOMAIN req.body
    THEN req.body["previousQuestions"].v ELSE <<>>

\* The request carries a list of served ids, or none
PreviousGiven ==
    "previousQuestions" \in DOMAIN req.body => req.body["previousQuestions"].t = "list"

\* The candidate pool of the quiz request as the specification defines it
CandidatePool ==
    IF SelectedCategory = 0 THEN questions
    ELSE SelectSeq(questions, LAMBDA r : r.category = SelectedCategory)

IsSuccess == resp.kind = "object" /\ "success" \in resp.keys /\ resp.success

IsExhausted == IsSuccess /\ "message" \in resp.keys /\ "question" \notin resp.keys

IsErrorEnvelope(codes) ==
    /\ resp.kind = "object"
    /\ {"success", "error", "message"} \subseteq resp.keys
    /\ ~resp.success
    /\ resp.error \in codes

\* C1: a quiz answer that carries a question, given a pool that is not
\* exhausted (previous_questions and the pool differ in length, and the pool
\* holds a question not yet served), never carries a question whose id is in
\* previous_questions.
QuizNeverServesPrevious ==
    (IsQuiz /\ PreviousGiven /\ Len(Previous) # Len(CandidatePool)
       /\ (\E k \in 1..Len(CandidatePool) : CandidatePool[k].id \notin Range(Previous))
       /\ resp.kind = "object" /\ "question" \in resp.keys)
    => resp.question.id \notin Range(Previous)

\* C2: a quiz request whose pool holds a question not yet served is answered
\* with success and the formatted record of a question of the pool; with the
\* pool {10, 11, 12} of category 1 and previous_questions = [10, 11] the
\* answer is question 12.
QuizServesFromPool ==
    /\ (IsQuiz /\ PreviousGiven
          /\ \E k \in 1..Len(CandidatePool) : CandidatePool[k].id \notin Range(Previous))
       => (IsSuccess /\ "question" \in resp.keys
             /\ \E k \in 1..Len(CandidatePool) : resp.question = Format(CandidatePool[k]))
    /\ (IsQuiz /\ questions = SeedQuestions /\ SelectedCategory = 1
          /\ PreviousGiven /\ Previous = <<10, 11>>)
       => (IsSuccess /\ "question" \in resp.keys /\ resp.question.id = 12)

\* C3: the quiz selector gives the exhaustion answer exactly when
\* previous_questions has as many ids as the candidate pool has questions.
QuizExhaustedIffSameLength ==
    (IsQuiz /\ PreviousGiven) => (IsExhausted <=> Len(Previous) = Len(CandidatePool))

\* C4: deleting an id that is not in the store is answered with the 404
\* envelope and leaves the stored questions unchanged.
DeleteUnknownIsNotFound ==
    (req.op = "delete_question" /\ ~\E k \in 1..Len(before) : before[k].id = req.id)
    => (IsErrorEnvelope({404}) /\ questions = before)

RequiredFields == {"question", "answer", "category", "difficulty"}

FieldMissing(body, f) == f \notin DOMAIN body \/ body[f].t = "null"

\* C5: a create request with a required field missing or null is answered
\* with a 400 or 422 failure envelope and adds no question.
CreateMissingFieldIsValidationFailure ==
    (req.op = "create_question" /\ \E f \in RequiredFields : FieldMissing(req.body, f))
    => (IsErrorEnvelope({400, 422}) /\ questions = before)

\* C6: after a create that supplies question text, answer text, a category c
\* and a difficulty, with no persistence failure, the new question is stored
\* and the questions GET /categories/c/questions returns contain it and have
\* category c only.
CreateThenFetchByCategory ==
    (req.op = "create_question" /\ ~req.fail
       /\ (\A f \in RequiredFields : ~FieldMissing(req.body, f))
       /\ req.body["question"].t = "str" /\ req.body["answer"].t = "str")
    => LET c == req.body["category"].v
           fetched == get_question_by_category(categories, questions, c,
                                               Body([page |-> <<>>])).questions
       IN  /\ IsSuccess /\ "created" \in resp.keys
           /\ \E k \in 1..Len(questions) :
                /\ questions[k].id = resp.created
                /\ Format(questions[k]) \in Range(fetched)
           /\ \A item \in Range(fetched) :
                "category" \in DOMAIN item /\ item.category = c

\* C7: for a sequence of length L and a page p >= 1, paginate_questions
\* returns min(10, max(0, L - (p-1)*10)) items, the items at indices
\* (p-1)*10 up to but excluding p*10, in the same order.
PaginateReturnsThePage ==
    (req.op = "paginate_questions" /\ "page" \in DOMAIN req.args
       /\ req.args["page"].t = "int" /\ req.args["page"].v >= 1)
    => LET p == req.args["page"].v
           L == Len(questions)
           got == resp.questions
       IN  /\ Len(got) = Min(10, Max(0, L - (p - 1) * 10))
           /\ \A i \in 1..Len(got) :
                /\ (p - 1) * 10 + i <= L
                /\ got[i] = Format(questions[(p - 1) * 10 + i])

\* A last, partly filled page is served
PaginateLastPageWitness ==
    /\ req.op = "paginate_questions" /\ "page" \in DOMAIN req.args
    /\ req.args["page"].t = "int" /\ req.args["page"].v = 3
    /\ Len(questions) = 21
    /\ Len(resp.questions) = 1
    /\ resp.questions[1].id = questions[21].id

\* text contains term as a substring, letters compared without regard to case
ContainsNoCase(text, term) ==
    \E i \in 0..(Len(text) - Len(term)) :
        \A j \in 1..Len(term) : Lower(text[i + j]) = Lower(term[j])

\* C8: the total_questions of a successful search for {searchTerm: t} is the
\* number of stored questions whose text contains t, without regard to case.
SearchTotalCountsMatches ==
    (req.op = "search_questions" /\ "searchTerm" \in DOMAIN req.body
       /\ IsSuccess /\ "total_questions" \in resp.keys)
    => resp.total_questions =
         Cardinality({k \in 1..Len(questions) :
                        ContainsNoCase(questions[k].question, req.body["searchTerm"].v)})

\* C9: every answer that is not a success is the fixed envelope: success
\* false, an error code among 400, 404, 422 and 500, and a message.
FailuresCarryTheEnvelope ==
    (req.op # "none" /\ ~IsSuccess) => IsErrorEnvelope({400, 404, 422, 500})

\* C10: a quiz request whose candidate pool is empty is answered with the
\* exhaustion-like success without a question, never with an error.
QuizEmptyPoolIsExhausted ==
    (IsQuiz /\ PreviousGiven /\ Len(CandidatePool) = 0) => IsExhausted

=============================================================================
